---- MODULE Spec2Model ----
(***************************************************************************)
(* A model of the distributed particle filter with DRNA                    *)
(* (src/smc/particle_filter.py) and of the planning of its particle        *)
(* exchange (src/smc/exchange_recipe.py, src/smc/particles_exchange.py).    *)
(*                                                                         *)
(* Weights are floating-point numbers in the program.  The model computes  *)
(* with exact extended rationals <<num, den>>: den > 0 is an ordinary      *)
(* fraction in lowest terms, <<1,0>> and <<-1,0>> are +inf and -inf and     *)
(* <<0,0>> is NaN, so that 1/0 = inf and 0*inf = NaN as numpy computes     *)
(* them.  Rounding is not modelled.                                        *)
(*                                                                         *)
(* Particles are one-dimensional positions; PEs, slots and sensors are     *)
(* numbered from 1 (the program numbers them from 0).                      *)
(***************************************************************************)
EXTENDS Integers, Sequences, FiniteSets, TLC

\* ------------------------------------------------------------------ bounds

\* handler calls (initialize, step) made on the filter in one behaviour
MaxCalls == 3
\* the time instants a filter of connected PEs is stepped through
MaxTimeInstants == 1

\* the exchange / normalization periods the filter is built with
Periods == {1, 2}

\* largest number of particles per PE and largest integer exchanged_particles
\* tried when planning an exchange
MaxPlanParticles == 3

\* iterations of the likelihood consensus, at most
MaxIterations == 5

\* ------------------------------------------------------- extended rationals

RECURSIVE GCD(_, _)
GCD(a, b) == IF b = 0 THEN a ELSE GCD(b, a % b)

Abs(x) == IF x < 0 THEN -x ELSE x

Sign(x) == IF x < 0 THEN -1 ELSE IF x = 0 THEN 0 ELSE 1

\* the value num/den as numpy's float division yields it: x/0 is +-inf, 0/0 is NaN
Rat(num, den) ==
    IF den = 0 THEN <<Sign(num), 0>>
    ELSE LET g == GCD(Abs(num), Abs(den))
         IN  <<(Sign(den) * num) \div g, Abs(den) \div g>>

Zero == <<0, 1>>
One == <<1, 1>>
NaN == <<0, 0>>
Inf == <<1, 0>>

IsFinite(a) == a[2] # 0

RMul(a, b) == Rat(a[1] * b[1], a[2] * b[2])

RAdd(a, b) ==
    IF a = NaN \/ b = NaN THEN NaN
    ELSE IF a[2] = 0 /\ b[2] = 0 THEN (IF a = b THEN a ELSE NaN)
    ELSE LET g == GCD(a[2], b[2])
         IN  Rat(a[1] * (b[2] \div g) + b[1] * (a[2] \div g), (a[2] \div g) * b[2])

RSub(a, b) == RAdd(a, RMul(<<-1, 1>>, b))

RDiv(a, b) ==
    IF a[2] = 0 /\ b[2] = 0 THEN NaN
    ELSE IF b[1] < 0 THEN Rat(-(a[1] * b[2]), -(a[2] * b[1]))
    ELSE Rat(a[1] * b[2], a[2] * b[1])

\* a > b for floats: false whenever a NaN is involved
RGreater(a, b) ==
    /\ a # NaN
    /\ b # NaN
    /\ a # b
    /\ IF a[2] = 0 THEN a[1] > 0 \/ b[2] # 0
       ELSE IF b[2] = 0 THEN b[1] < 0
       ELSE a[1] * b[2] > b[1] * a[2]

RECURSIVE SumUpTo(_, _)
SumUpTo(s, k) == IF k = 0 THEN Zero ELSE RAdd(SumUpTo(s, k - 1), s[k])

\* numpy's sum of a vector
RSum(s) == SumUpTo(s, Len(s))

\* ------------------------------------------- planning of a DRNA exchange

\* the topologies planned for: symmetric neighbour lists, in ascending order
Line2 == << <<2>>, <<1>> >>
Path3 == << <<2>>, <<1, 3>>, <<2>> >>
Ring3 == << <<2, 3>>, <<1, 3>>, <<1, 2>> >>
Star4 == << <<2, 3, 4>>, <<1>>, <<1>>, <<1>> >>

PlanTopologies == {Line2, Path3, Ring3, Star4}

\* exchanged_particles as the caller may give it: an int, a float (a fraction
\* num/den), or a value of any other type
ExchangedParticlesValues ==
    [type : {"int"}, value : 0..MaxPlanParticles]
        \cup [type : {"float"}, num : {1, 2}, den : {2}]
        \cup {[type |-> "other"]}

RECURSIVE MaxOf(_)
MaxOf(S) == IF S = {} THEN 0
            ELSE LET x == CHOOSE y \in S : TRUE
                     m == MaxOf(S \ {x})
                 IN  IF x > m THEN x ELSE m

MaxDegree(neighbours) == MaxOf({Len(neighbours[i]) : i \in DOMAIN neighbours})

\* the (iPE, iNeighbour) pairs in the order the two nested loops visit them
RECURSIVE LoopPairsFrom(_, _, _)
LoopPairsFrom(neighbours, iPE, k) ==
    IF iPE > Len(neighbours) THEN <<>>
    ELSE IF k > Len(neighbours[iPE]) THEN LoopPairsFrom(neighbours, iPE + 1, 1)
    ELSE <<<<iPE, neighbours[iPE][k]>>>> \o LoopPairsFrom(neighbours, iPE, k + 1)

LoopPairs(neighbours) == LoopPairsFrom(neighbours, 1, 1)

\* (a variant that draws with replacement)
ChoiceWithReplacement(population, size) == [1..size -> population]

\* PRNG.choice(population, size, replace=False): every ordered draw of `size`
\* distinct elements; none when the population is too small (ValueError)
Choice(population, size) ==
    {s \in [1..size -> population] : \A a, b \in 1..size : a # b => s[a] # s[b]}

Range(s) == {s[k] : k \in DOMAIN s}

ExchangeTuple(iPE, iParticleWithinPE, iNeighbour, iParticleWithinNeighbour) ==
    [iPE |-> iPE, iParticleWithinPE |-> iParticleWithinPE,
     iNeighbour |-> iNeighbour, iParticleWithinNeighbour |-> iParticleWithinNeighbour]

NeighbourParticlesTuple(iNeighbour, iParticles) ==
    [iNeighbour |-> iNeighbour, iParticles |-> iParticles]

\* the recipe object before its constructor has run
NewRecipe(neighbours, nParticles, exchanged_particles) ==
    [status |-> "new",
     neighbours |-> neighbours,
     nParticlesPerPE |-> nParticles,
     exchanged_particles |-> exchanged_particles,
     nParticlesExchangedBetweenTwoNeighbours |-> 0,
     alreadyProcessedPEs |-> {},
     iNotSwappedYetParticles |-> [i \in DOMAIN neighbours |-> 1..nParticles],
     exchangeTuples |-> <<>>,
     neighbours_particles |-> [i \in DOMAIN neighbours |-> <<>>],
     iLoop |-> 1]

\* an exception leaves the constructor: no recipe is built
Raised(r) == [r EXCEPT !.status = "error", !.exchangeTuples = <<>>,
                       !.neighbours_particles = [i \in DOMAIN r.neighbours |-> <<>>]]

\* the number of particles exchanged by two neighbours, or -1 for an
\* exchanged_particles of a type that is neither int nor float
NumberExchanged(r) ==
    LET x == r.exchanged_particles
    IN  IF x.type = "int" THEN x.value
        ELSE IF x.type = "float"
             THEN (r.nParticlesPerPE * x.num) \div (x.den * MaxDegree(r.neighbours))
        ELSE -1

\* the constructor up to its loop
PlanStart(r) ==
    LET E == NumberExchanged(r)
    IN  IF r.exchanged_particles.type \notin {"int", "float"} THEN Raised(r)
        ELSE IF E = 0 THEN Raised(r)
        ELSE [r EXCEPT !.status = "planning",
                       !.nParticlesExchangedBetweenTwoNeighbours = E]

\* the constructor returns once its loop is exhausted
Finished(r) ==
    IF r.status = "planning" /\ r.iLoop > Len(LoopPairs(r.neighbours))
    THEN [r EXCEPT !.status = "done"]
    ELSE r

\* (a variant that forgets the slots promised by the neighbour)
MarkNeighbourSkipped(notSwapped, iNeighbour, slots) == notSwapped

\* the slots of the neighbour are promised: iNotSwappedYetParticles[iNeighbour,...] = False
MarkNeighbour(notSwapped, iNeighbour, slots) ==
    [notSwapped EXCEPT ![iNeighbour] = @ \ Range(slots)]

\* one iteration of the loop over the PEs and their neighbours: the set of
\* recipes it may leave, one for every draw of the PRNG
PlanPair(r) ==
    LET pair == LoopPairs(r.neighbours)[r.iLoop]
        iPE == pair[1]
        iNeighbour == pair[2]
        E == r.nParticlesExchangedBetweenTwoNeighbours
        inPE == Choice(r.iNotSwappedYetParticles[iPE], E)
        inNeighbour == Choice(r.iNotSwappedYetParticles[iNeighbour], E)
    IN  IF <<iPE, iNeighbour>> \in r.alreadyProcessedPEs
        THEN {Finished([r EXCEPT !.iLoop = @ + 1])}
        ELSE IF inPE = {} \/ inNeighbour = {} THEN {Raised(r)}
        ELSE {Finished(
                [r EXCEPT
                   !.exchangeTuples = @ \o
                       [k \in 1..E |-> ExchangeTuple(iPE, p[k], iNeighbour, q[k])],
                   !.iNotSwappedYetParticles =
                       MarkNeighbour([@ EXCEPT ![iPE] = @ \ Range(p)], iNeighbour, q),
                   !.alreadyProcessedPEs = @ \cup {<<iPE, iNeighbour>>, <<iNeighbour, iPE>>},
                   !.neighbours_particles =
                       [@ EXCEPT ![iPE] = Append(@, NeighbourParticlesTuple(iNeighbour, p)),
                                 ![iNeighbour] = Append(@, NeighbourParticlesTuple(iPE, q))],
                   !.iLoop = @ + 1]) : p \in inPE, q \in inNeighbour}

\* every recipe the constructor may return (or fail with) from r
RECURSIVE Planned(_)
Planned(r) ==
    IF r.status = "new" THEN Planned(Finished(PlanStart(r)))
    ELSE IF r.status = "planning" THEN UNION {Planned(r2) : r2 \in PlanPair(r)}
    ELSE {r}

\* ---------------------------------------------- messages of an exchange

\* state.nElements: the elements of a state vector (a position and a velocity
\* in the plane), and state.n_elements_position: those of its position
nElements == 4
n_elements_position == 2

\* the PEs at most d hops away from those of S
RECURSIVE Within(_, _, _)
Within(neighbours, S, d) ==
    IF d = 0 THEN S
    ELSE Within(neighbours, S \cup UNION {Range(neighbours[i]) : i \in S}, d - 1)

\* PEsTopology.distances_between_PEs(): the number of hops between two PEs
distances_between_PEs(neighbours) ==
    [i \in DOMAIN neighbours |->
        [j \in DOMAIN neighbours |->
            CHOOSE d \in 0..Len(neighbours) :
                /\ j \in Within(neighbours, {i}, d)
                /\ \A c \in 0..(d - 1) : j \notin Within(neighbours, {i}, c)]]

\* the sum of the first k integers of s
RECURSIVE sum(_, _)
sum(s, k) == IF k = 0 THEN 0 ELSE sum(s, k - 1) + s[k]

\* (a variant that counts the samples alone)
messagesOfSamples(r) ==
    LET distances == distances_between_PEs(r.neighbours)
    IN  sum([iPE \in DOMAIN r.neighbours_particles |->
                sum([k \in DOMAIN r.neighbours_particles[iPE] |->
                        distances[iPE][r.neighbours_particles[iPE][k].iNeighbour]
                            * Len(r.neighbours_particles[iPE][k].iParticles) * nElements],
                    Len(r.neighbours_particles[iPE]))],
            Len(r.neighbours_particles))

\* DRNAExchangeRecipe.messages
messages(r) ==
    LET distances == distances_between_PEs(r.neighbours)
    IN  sum([iPE \in DOMAIN r.neighbours_particles |->
                sum([k \in DOMAIN r.neighbours_particles[iPE] |->
                        distances[iPE][r.neighbours_particles[iPE][k].iNeighbour]
                            * Len(r.neighbours_particles[iPE][k].iParticles) * nElements],
                    Len(r.neighbours_particles[iPE]))
                  + Len(r.neighbours_particles[iPE])],
            Len(r.neighbours_particles))

\* MposteriorExchangeRecipe.messages
MposteriorMessages(r) ==
    messages(r) - sum([iPE \in DOMAIN r.neighbours_particles |->
                          Len(r.neighbours_particles[iPE])],
                      Len(r.neighbours_particles))

\* IteratedMposteriorExchangeRecipe.messages
IteratedMposteriorMessages(r, number_iterations) ==
    MposteriorMessages(r) * number_iterations

\* scipy.misc.comb(N, k, exact=True)
RECURSIVE comb(_, _)
comb(N, k) ==
    IF k = 0 THEN 1
    ELSE IF N = 0 THEN 0
    ELSE comb(N - 1, k - 1) + comb(N - 1, k)

\* LikelihoodConsensusExchangeRecipe.messages
consensusMessages(neighborhoods, maxNumberOfIterations, polynomialDegree) ==
    LET M == 2
        n_consensus_algorithms == comb(2 * polynomialDegree + M, 2 * polynomialDegree) - 1
        n_neighbours == sum([i \in DOMAIN neighborhoods |-> Len(neighborhoods[i])],
                            Len(neighborhoods))
    IN  n_neighbours * n_consensus_algorithms * maxNumberOfIterations + n_neighbours

\* ------------------------------------------------------------ the filter

\* the topology the filter runs on, and its configuration
PEsNeighbours == Line2
nPEs == Len(PEsNeighbours)
nParticlesPerPE == 2
PEsIndexes == 1..nPEs
Slots == 1..nParticlesPerPE

\* one-dimensional positions of the room
Positions == {1, 2}

\* binary sensors: a target closer than the threshold is detected with
\* probability probDetection, a farther one with probability probFalseAlarm
Sensors == << [position |-> 1, threshold |-> 1,
               probDetection |-> <<1, 2>>, probFalseAlarm |-> Zero] >>

\* every sensor is connected with every PE
PEsSensorsConnections == [i \in PEsIndexes |-> [s \in 1..Len(Sensors) |-> s]]

\* the sensors a PE is built with: those of the filter whose index is among
\* its connections, in the order of the filter's sensors
sensorsOf(sensors, connections) ==
    LET connected(iSensor) == iSensor \in Range(connections)
        iSensors == SelectSeq([iSensor \in 1..Len(sensors) |-> iSensor], connected)
    IN  [j \in 1..Len(iSensors) |-> sensors[iSensors[j]]]

\* observations[self._PEsSensorsConnections[iPe]]: the observations handed
\* to a PE, in the order of its connections
observationsOf(obs, connections) ==
    [j \in 1..Len(connections) |-> obs[connections[j]]]

\* the observations of one time instant: one of 0, 1 per sensor
ObservationsValues == [1..Len(Sensors) -> {0, 1}]

\* (a variant that takes every observation for a detection)
likelihoodOfDetection(sensor, observation, position) ==
    IF Abs(position - sensor.position) < sensor.threshold
    THEN sensor.probDetection
    ELSE sensor.probFalseAlarm

\* BinarySensor.likelihood for one position
likelihood(sensor, observation, position) ==
    IF Abs(position - sensor.position) < sensor.threshold
    THEN (IF observation = 1 THEN sensor.probDetection
          ELSE Rat(sensor.probDetection[2] - sensor.probDetection[1],
                   sensor.probDetection[2]))
    ELSE (IF observation = 1 THEN sensor.probFalseAlarm
          ELSE Rat(sensor.probFalseAlarm[2] - sensor.probFalseAlarm[1],
                   sensor.probFalseAlarm[2]))

\* the transition kernel, applied to every particle: that of a static target
nextStates(state) == {state}

\* the resampling algorithm: any indexes of particles, drawn with replacement
\* (none is drawn when the criterion asks for no resampling)
getIndexes(isResamplingNeeded) ==
    IF isResamplingNeeded THEN [Slots -> Slots] ELSE {[k \in Slots |-> k]}

RECURSIVE ProdUpTo(_, _)
ProdUpTo(s, k) == IF k = 0 THEN One ELSE RMul(ProdUpTo(s, k - 1), s[k])

\* a PE as its constructor leaves it: the weights are np.empty, the
\* aggregated weight is the one given
NewPE(garbage, aggregatedWeight) ==
    [state |-> <<>>, weights |-> garbage, aggregatedWeight |-> aggregatedWeight]

fill(value) == [k \in Slots |-> value]

\* CentralizedTargetTrackingParticleFilter.initialize
PEinitialize(PE, samples) ==
    [PE EXCEPT !.state = samples,
               !.weights = fill(RDiv(PE.aggregatedWeight, Rat(nParticlesPerPE, 1)))]

updateAggregatedWeight(PE) == [PE EXCEPT !.aggregatedWeight = RSum(PE.weights)]

\* (a variant that resamples to weights 1/K, as a filter on its own does)
resampleToUniform(PE, isResamplingNeeded, iParticlesToBeKept) ==
    IF isResamplingNeeded
    THEN [PE EXCEPT !.state = [k \in Slots |-> PE.state[iParticlesToBeKept[k]]],
                    !.weights = fill(Rat(1, nParticlesPerPE))]
    ELSE PE

\* resample, given the answer of the resampling criterion and the indexes
\* the resampling algorithm returns
resample(PE, isResamplingNeeded, iParticlesToBeKept) ==
    IF isResamplingNeeded
    THEN [PE EXCEPT !.state = [k \in Slots |-> PE.state[iParticlesToBeKept[k]]],
                    !.weights = fill(RDiv(PE.aggregatedWeight, Rat(nParticlesPerPE, 1)))]
    ELSE PE

\* EmbeddedTargetTrackingParticleFilter.avoidWeightDegeneracy
avoidWeightDegeneracy(PE, isResamplingNeeded, iParticlesToBeKept) ==
    IF PE.aggregatedWeight = Zero THEN PE
    ELSE resample(PE, isResamplingNeeded, iParticlesToBeKept)

\* CentralizedTargetTrackingParticleFilter.step on an embedded PE
PEstep(PE, sensors, observations, nextState, isResamplingNeeded, iParticlesToBeKept) ==
    LET likelihoodsProduct ==
            [k \in Slots |->
                ProdUpTo([s \in 1..Len(sensors) |->
                             likelihood(sensors[s], observations[s], nextState[k])],
                         Len(sensors))]
        weighted == [PE EXCEPT !.state = nextState,
                               !.weights = [k \in Slots |->
                                               RMul(PE.weights[k], likelihoodsProduct[k])]]
    IN  avoidWeightDegeneracy(updateAggregatedWeight(weighted),
                              isResamplingNeeded, iParticlesToBeKept)

\* (a variant that stores the sample and leaves the weight of the slot)
setParticleSampleOnly(PE, index, particle) ==
    updateAggregatedWeight([PE EXCEPT !.state[index] = particle[1]])

getParticle(PE, index) == <<PE.state[index], PE.weights[index]>>

setParticle(PE, index, particle) ==
    updateAggregatedWeight([PE EXCEPT !.state[index] = particle[1],
                                      !.weights[index] = particle[2]])

\* (a variant that scales the weights and leaves their sum)
scaleWeightsOnly(PE, factor) ==
    [PE EXCEPT !.weights = [k \in Slots |-> RMul(PE.weights[k], factor)]]

\* EmbeddedTargetTrackingParticleFilter.scaleWeights
scaleWeights(PE, factor) ==
    [PE EXCEPT !.weights = [k \in Slots |-> RMul(PE.weights[k], factor)],
               !.aggregatedWeight = RMul(PE.aggregatedWeight, factor)]

\* CentralizedTargetTrackingParticleFilter.computeMean
PEcomputeMean(PE) ==
    IF PE.aggregatedWeight = Zero THEN Zero
    ELSE RSum([k \in DOMAIN PE.state |->
                  RMul(Rat(PE.state[k], 1), RDiv(PE.weights[k], PE.aggregatedWeight))])

getAggregatedWeights(pes) == [i \in PEsIndexes |-> pes[i].aggregatedWeight]

\* (a variant that hands the particle of the neighbour to both PEs)
swapCopied(pes, e, particles) ==
    LET first == [pes EXCEPT ![e.iPE] =
                     setParticle(@, e.iParticleWithinPE, particles[2])]
    IN  [first EXCEPT ![e.iNeighbour] =
            setParticle(@, e.iParticleWithinNeighbour, particles[2])]

\* the two setParticle calls made for one exchange tuple
swap(pes, e, particles) ==
    LET first == [pes EXCEPT ![e.iPE] =
                     setParticle(@, e.iParticleWithinPE, particles[2])]
    IN  [first EXCEPT ![e.iNeighbour] =
            setParticle(@, e.iParticleWithinNeighbour, particles[1])]

\* the second loop of exchangeParticles / performExchange, from tuple t on
RECURSIVE ExchangeFrom(_, _, _, _)
ExchangeFrom(pes, exchangeMap, aux, t) ==
    IF t > Len(exchangeMap) THEN pes
    ELSE ExchangeFrom(swap(pes, exchangeMap[t], aux[t]), exchangeMap, aux, t + 1)

\* (a variant that stops after the first exchange tuple)
exchangeParticlesOnce(pes, exchangeMap) ==
    IF exchangeMap = <<>> THEN pes
    ELSE swap(pes, exchangeMap[1],
              <<getParticle(pes[exchangeMap[1].iPE], exchangeMap[1].iParticleWithinPE),
                getParticle(pes[exchangeMap[1].iNeighbour],
                            exchangeMap[1].iParticleWithinNeighbour)>>)

\* TargetTrackingParticleFilterWithDRNA.exchangeParticles (and
\* DRNAExchangeRecipe.performExchange): all the particles are read first
exchangeParticles(pes, exchangeMap) ==
    LET aux == [t \in DOMAIN exchangeMap |->
                  <<getParticle(pes[exchangeMap[t].iPE], exchangeMap[t].iParticleWithinPE),
                    getParticle(pes[exchangeMap[t].iNeighbour],
                                exchangeMap[t].iParticleWithinNeighbour)>>]
    IN  ExchangeFrom(pes, exchangeMap, aux, 1)

\* (a variant that averages the means of the PEs, whatever their weights)
computeMeanUnweighted(pes) ==
    RDiv(RSum([i \in PEsIndexes |-> PEcomputeMean(pes[i])]), Rat(nPEs, 1))

\* WeightedMean.estimate (compute_mean and aggregated_weights there are the
\* computeMean and getAggregatedWeights of the filter)
WeightedMeanEstimate(pes) ==
    LET aggregated_weights == getAggregatedWeights(pes)
        normalized_aggregated_weights ==
            [i \in PEsIndexes |-> RDiv(aggregated_weights[i], RSum(aggregated_weights))]
    IN  RSum([i \in PEsIndexes |->
                RMul(PEcomputeMean(pes[i]), normalized_aggregated_weights[i])])

\* TargetTrackingParticleFilterWithDRNA.computeMean
computeMean(pes) ==
    LET S == RSum(getAggregatedWeights(pes))
    IN  RSum([i \in PEsIndexes |->
                RMul(PEcomputeMean(pes[i]), RDiv(pes[i].aggregatedWeight, S))])

\* numpy's max of the first k elements of a vector: a NaN wins
RECURSIVE MaxUpTo(_, _)
MaxUpTo(s, k) ==
    IF k = 1 THEN s[1]
    ELSE LET m == MaxUpTo(s, k - 1)
         IN  IF m = NaN \/ s[k] = NaN THEN NaN
             ELSE IF RGreater(s[k], m) THEN s[k] ELSE m

\* degeneratedAggregatedWeights: when the aggregated weights add up to 0 a
\* console is opened, and once it is left the division goes on, with NaNs
degeneratedAggregatedWeights(pes, aggregatedWeightsUpperBound) ==
    LET normalizedWeights ==
            [i \in PEsIndexes |->
                RDiv(getAggregatedWeights(pes)[i], RSum(getAggregatedWeights(pes)))]
    IN  RGreater(MaxUpTo(normalizedWeights, nPEs), aggregatedWeightsUpperBound)

\* ------------------------------------------------------------------ state

VARIABLES
    recipe,                 \* the exchange recipe (under construction, or built)
    exchangePeriod,         \* TargetTrackingParticleFilterWithDRNA._exchangePeriod
    normalizationPeriod,    \* ..._normalizationPeriod
    PEs,                    \* DistributedTargetTrackingParticleFilter._PEs
    n,                      \* ..._n, the time instants elapsed since initialize
    pc,                     \* where the filter is: "plan" (no filter: a recipe is
                            \* being built), "constructed", "idle" (between two
                            \* calls), or within step: "local", "exchange", "normalize"
    iPe,                    \* within step: the PE whose local step comes next
    observations,           \* within step: the observations step was called with
    aggregatedWeightsSum,   \* within step: the local aggregatedWeightsSum
    calls,                  \* how many calls of initialize and step were made
    returned                \* what the last query made of the program returned

vars == <<recipe, exchangePeriod, normalizationPeriod, PEs, n, pc, iPe, observations,
          aggregatedWeightsSum, calls, returned>>

\* what np.empty may hold
GarbageWeights == {Zero, One}

\* the recipes the filter may be built on
BuiltRecipes ==
    {r \in UNION {Planned(NewRecipe(PEsNeighbours, nParticlesPerPE,
                                    [type |-> "int", value |-> e])) : e \in Slots} :
        r.status = "done"}

\* the filter right after its constructor
Init ==
    /\ recipe \in BuiltRecipes
    /\ exchangePeriod \in Periods
    /\ normalizationPeriod \in Periods
    /\ PEs \in [PEsIndexes -> {NewPE(g, Rat(1, nPEs)) : g \in [Slots -> GarbageWeights]}]
    /\ n = 0
    /\ pc = "constructed"
    /\ iPe = 0
    /\ observations = <<>>
    /\ aggregatedWeightsSum = Zero
    /\ calls = 0
    /\ returned = <<>>

\* DistributedTargetTrackingParticleFilter.initialize
initialize ==
    /\ pc \in {"constructed", "idle"}
    /\ calls < MaxCalls
    /\ \E samples \in [PEsIndexes -> [Slots -> Positions]] :
          PEs' = [i \in PEsIndexes |-> PEinitialize(PEs[i], samples[i])]
    /\ n' = 0
    /\ pc' = "idle"
    /\ calls' = calls + 1
    /\ UNCHANGED <<recipe, exchangePeriod, normalizationPeriod, iPe, observations,
                   aggregatedWeightsSum, returned>>

\* step is called with the observations of a time instant, one of `values`
stepCalledWith(values) ==
    /\ pc = "idle"
    /\ calls < MaxCalls
    /\ observations' \in values
    /\ iPe' = 1
    /\ pc' = "local"
    /\ calls' = calls + 1
    /\ UNCHANGED <<recipe, exchangePeriod, normalizationPeriod, PEs, n, aggregatedWeightsSum,
                   returned>>

stepCalled == stepCalledWith(ObservationsValues)

\* DistributedTargetTrackingParticleFilter.step: the local step of one PE,
\* and the count of the time instant after the last one; `sensors` are the
\* sensors of the filter and `criterion` the answers the resampling
\* criterion may give
stepLocalWith(sensors, criterion) ==
    /\ pc = "local"
    /\ \E nextState \in nextStates(PEs[iPe].state), isResamplingNeeded \in criterion :
       \E iParticlesToBeKept \in getIndexes(isResamplingNeeded) :
          PEs' = [PEs EXCEPT ![iPe] =
                     PEstep(@, sensorsOf(sensors, PEsSensorsConnections[iPe]),
                            observationsOf(observations, PEsSensorsConnections[iPe]),
                            nextState, isResamplingNeeded, iParticlesToBeKept)]
    /\ IF iPe < nPEs
       THEN /\ iPe' = iPe + 1
            /\ UNCHANGED <<n, pc, observations>>
       ELSE /\ iPe' = 0
            /\ n' = n + 1
            /\ pc' = "exchange"
            /\ observations' = <<>>
    /\ UNCHANGED <<recipe, exchangePeriod, normalizationPeriod, aggregatedWeightsSum, calls,
                   returned>>

\* any answer of the resampling criterion, the sensors of the room
stepLocal == stepLocalWith(Sensors, BOOLEAN)

\* the exchange of step, when it is due, and the sum of the aggregated weights
exchanged(pes, exchangeMap) ==
    [i \in PEsIndexes |-> updateAggregatedWeight(exchangeParticles(pes, exchangeMap)[i])]

stepExchange ==
    /\ pc = "exchange"
    /\ PEs' = IF n % exchangePeriod = 0 THEN exchanged(PEs, recipe.exchangeTuples) ELSE PEs
    /\ aggregatedWeightsSum' = RSum(getAggregatedWeights(PEs'))
    /\ pc' = "normalize"
    /\ UNCHANGED <<recipe, exchangePeriod, normalizationPeriod, n, iPe, observations, calls,
                   returned>>

\* (a variant that divides by the aggregated weight of the first PE)
normalizedByFirst(pes, S) ==
    [i \in PEsIndexes |-> scaleWeights(pes[i], RDiv(One, pes[1].aggregatedWeight))]

\* the normalization of step, when it is due
normalized(pes, S) == [i \in PEsIndexes |-> scaleWeights(pes[i], RDiv(One, S))]

stepNormalize ==
    /\ pc = "normalize"
    /\ PEs' = IF n % normalizationPeriod = 0 THEN normalized(PEs, aggregatedWeightsSum)
              ELSE PEs
    /\ aggregatedWeightsSum' = Zero
    /\ pc' = "idle"
    /\ UNCHANGED <<recipe, exchangePeriod, normalizationPeriod, n, iPe, observations, calls,
                   returned>>

Next == initialize \/ stepCalled \/ stepLocal \/ stepExchange \/ stepNormalize

Spec == Init /\ [][Next]_vars

\* ------------------------------------------------ planning, step by step

\* the arguments a recipe is constructed with
InitPlan ==
    /\ recipe \in {NewRecipe(t, K, x) : t \in PlanTopologies, K \in 1..MaxPlanParticles,
                                        x \in ExchangedParticlesValues}
    /\ exchangePeriod = 1
    /\ normalizationPeriod = 1
    /\ PEs = <<>>
    /\ n = 0
    /\ pc = "plan"
    /\ iPe = 0
    /\ observations = <<>>
    /\ aggregatedWeightsSum = Zero
    /\ calls = 0
    /\ returned = <<>>

planStart ==
    /\ pc = "plan"
    /\ recipe.status = "new"
    /\ recipe' = Finished(PlanStart(recipe))
    /\ UNCHANGED <<exchangePeriod, normalizationPeriod, PEs, n, pc, iPe, observations,
                   aggregatedWeightsSum, calls, returned>>

planPair ==
    /\ pc = "plan"
    /\ recipe.status = "planning"
    /\ recipe' \in PlanPair(recipe)
    /\ UNCHANGED <<exchangePeriod, normalizationPeriod, PEs, n, pc, iPe, observations,
                   aggregatedWeightsSum, calls, returned>>

\* messages() is called on a recipe that was built, of either class
messagesAsked ==
    /\ pc = "plan"
    /\ recipe.status = "done"
    /\ returned = <<>>
    /\ \/ returned' = <<[class |-> "DRNAExchangeRecipe", messages |-> messages(recipe)]>>
       \/ returned' = <<[class |-> "MposteriorExchangeRecipe",
                         messages |-> MposteriorMessages(recipe)]>>
    /\ UNCHANGED <<recipe, exchangePeriod, normalizationPeriod, PEs, n, pc, iPe,
                   observations, aggregatedWeightsSum, calls>>

NextPlan == planStart \/ planPair \/ messagesAsked

SpecPlan == InitPlan /\ [][NextPlan]_vars

\* -------------------------------------------------------- the estimators

Line5 == <<<<2>>, <<1, 3>>, <<2, 4>>, <<3, 5>>, <<4>>>>
EstimatorTopologies == PlanTopologies \cup {Line5}

EstimatorClasses ==
    {"Mean", "WeightedMean", "Mposterior", "PartialMposterior",
     "GeometricMedian", "StochasticGeometricMedian"}

\* Mean.messages, inherited by WeightedMean
MeanMessages(neighbours, i_PE) ==
    sum(distances_between_PEs(neighbours)[i_PE], Len(neighbours)) * n_elements_position

\* Mposterior.messages
MposteriorEstimatorMessages(neighbours, pes, i_PE) ==
    sum(distances_between_PEs(neighbours)[i_PE], Len(neighbours))
        * pes[i_PE].n_particles * n_elements_position

\* PartialMposterior.messages
PartialMposteriorMessages(neighbours, n_particles, i_PE) ==
    sum(distances_between_PEs(neighbours)[i_PE], Len(neighbours))
        * n_particles * n_elements_position

\* GeometricMedian.messages
GeometricMedianMessages(neighbours, i_PE) ==
    sum(distances_between_PEs(neighbours)[i_PE], Len(neighbours)) * n_elements_position

\* StochasticGeometricMedian.messages
StochasticGeometricMedianMessages(neighbours, n_particles, i_PE) ==
    GeometricMedianMessages(neighbours, i_PE) * n_particles

\* the messages() of an estimator of the given class
estimatorMessages(class, neighbours, pes, n_particles, i_PE) ==
    CASE class \in {"Mean", "WeightedMean"} -> MeanMessages(neighbours, i_PE)
      [] class = "Mposterior" -> MposteriorEstimatorMessages(neighbours, pes, i_PE)
      [] class = "PartialMposterior" -> PartialMposteriorMessages(neighbours, n_particles, i_PE)
      [] class = "GeometricMedian" -> GeometricMedianMessages(neighbours, i_PE)
      [] class = "StochasticGeometricMedian" ->
            StochasticGeometricMedianMessages(neighbours, n_particles, i_PE)

\* a filter of K particles per PE on some topology, whose estimators are
\* then asked for their messages
InitEstimator ==
    /\ \E neighbours \in EstimatorTopologies, K \in 1..MaxPlanParticles :
          /\ recipe = [status |-> "estimator", neighbours |-> neighbours]
          /\ PEs = [i \in DOMAIN neighbours |-> [n_particles |-> K]]
    /\ exchangePeriod = 1
    /\ normalizationPeriod = 1
    /\ n = 0
    /\ pc = "estimator"
    /\ iPe = 1
    /\ observations = <<>>
    /\ aggregatedWeightsSum = One
    /\ calls = 0
    /\ returned = <<>>

\* Estimator(DPF, i_PE).messages(PEs_topology), the estimators that draw
\* samples being built with n_particles
estimatorMessagesAsked ==
    /\ pc = "estimator"
    /\ \E class \in EstimatorClasses, i_PE \in DOMAIN recipe.neighbours,
          n_particles \in 1..MaxPlanParticles :
          returned' = <<[class |-> class, i_PE |-> i_PE,
                         n_particles |-> IF class \in {"PartialMposterior",
                                                       "StochasticGeometricMedian"}
                                         THEN n_particles ELSE 0,
                         messages |-> estimatorMessages(class, recipe.neighbours, PEs,
                                                        n_particles, i_PE)]>>
    /\ UNCHANGED <<recipe, exchangePeriod, normalizationPeriod, PEs, n, pc, iPe,
                   observations, aggregatedWeightsSum, calls>>

NextEstimator == estimatorMessagesAsked

SpecEstimator == InitEstimator /\ [][NextEstimator]_vars

\* ------------------------------------- a resampling the algorithm rejects

ResampledWeights == {Rat(1, 4), Rat(1, 2), Rat(3, 4)}

\* a particle filter that resample(normalizedWeights) is about to be called on
InitResample ==
    /\ \E samples \in [Slots -> Positions], weights \in [Slots -> ResampledWeights] :
          PEs = <<updateAggregatedWeight([state |-> samples, weights |-> weights,
                                          aggregatedWeight |-> Zero])>>
    /\ recipe = [status |-> "resample"]
    /\ exchangePeriod = 1
    /\ normalizationPeriod = 1
    /\ n = 0
    /\ pc = "resample"
    /\ iPe = 1
    /\ observations = <<>>
    /\ aggregatedWeightsSum = One
    /\ calls = 0
    /\ returned = <<>>

\* resample up to the answer of the resampling algorithm, which is counted
\* in `calls`: it returns indexes, or raises the ValueError that is caught
resampleCalled ==
    /\ pc = "resample"
    /\ \E isResamplingNeeded \in BOOLEAN :
          IF isResamplingNeeded
          THEN /\ calls' = calls + 1
               /\ \/ \E iParticlesToBeKept \in getIndexes(TRUE) :
                        /\ PEs' = [PEs EXCEPT ![1] = resample(@, TRUE, iParticlesToBeKept)]
                        /\ pc' = "resampled"
                  \/ /\ pc' = "console"
                     /\ UNCHANGED PEs
          ELSE /\ pc' = "resampled"
               /\ UNCHANGED <<PEs, calls>>
    /\ UNCHANGED <<recipe, exchangePeriod, normalizationPeriod, n, iPe, observations,
                   aggregatedWeightsSum, returned>>

\* the console opened by the handler is left: the state is indexed with
\* iParticlesToBeKept, which was never bound
consoleLeft ==
    /\ pc = "console"
    /\ pc' = "raised"
    /\ returned' = <<"UnboundLocalError">>
    /\ UNCHANGED <<recipe, exchangePeriod, normalizationPeriod, PEs, n, iPe, observations,
                   aggregatedWeightsSum, calls>>

NextResample == resampleCalled \/ consoleLeft

SpecResample == InitResample /\ [][NextResample]_vars

\* -------------------------------------------------- the Mposterior exchange

\* the plans the exchange runs on: one particle exchanged by two neighbours
MposteriorPlans ==
    {r \in UNION {Planned(NewRecipe(t, nParticlesPerPE, [type |-> "int", value |-> 1])) :
                    t \in {Line2, Path3}} : r.status = "done"}

\* number_iterations of an IteratedMposteriorExchangeRecipe (1 is also the
\* plain MposteriorExchangeRecipe)
NumbersOfIterations == {0, 1, 2}

\* the weights of a PE before the exchange
WeightsBefore == {<<Rat(1, 2), Rat(1, 2)>>, <<Rat(1, 4), Rat(3, 4)>>, <<Zero, One>>}

getSamplesAt(PE, indexes) == [k \in DOMAIN indexes |-> PE.state[indexes[k]]]

\* np.full(size, value)
full(size, value) == [k \in 1..size |-> value]

\* the subset posteriors performExchange gathers for the iPE-th PE: one for
\* each entry of its plan, and its own first particles
subsetPosteriorDistributions(pes, plan, iPE) ==
    LET E == plan.nParticlesExchangedBetweenTwoNeighbours
    IN  [m \in DOMAIN plan.neighbours_particles[iPE] |->
            [samples |-> getSamplesAt(pes[plan.neighbours_particles[iPE][m].iNeighbour],
                                      plan.neighbours_particles[iPE][m].iParticles),
             weights |-> full(E, Rat(1, E))]]
        \o <<[samples |-> getSamplesAt(pes[iPE], [k \in 1..E |-> k]),
              weights |-> full(E, Rat(1, E))]>>

\* the joint particles DPF.Mposterior returns: the samples of all the subset
\* posteriors, one subset after the other
RECURSIVE jointParticlesUpTo(_, _)
jointParticlesUpTo(posteriors, m) ==
    IF m = 0 THEN <<>>
    ELSE jointParticlesUpTo(posteriors, m - 1) \o posteriors[m].samples

Mposterior(posteriors) == jointParticlesUpTo(posteriors, Len(posteriors))

\* resamplingAlgorithm.getIndexes(jointWeights, nParticles): any nParticles
\* indexes of joint particles
getIndexesAmong(nJoint, nParticles) == [1..nParticles -> 1..nJoint]

\* (a variant that leaves the weights as they are)
setLogWeightsNot(PE, nParticles) == PE

\* PE.logWeights = np.full(nParticles, -np.log(nParticles)): every weight is 1/nParticles
setLogWeights(PE, nParticles) ==
    [PE EXCEPT !.weights = full(nParticles, Rat(1, nParticles))]

\* the samples setter: the value is kept if it has the shape of the state
setSamples(PE, value) ==
    IF Len(value) = Len(PE.state) THEN [PE EXCEPT !.state = value] ELSE PE

\* the body of the loop of MposteriorExchangeRecipe.performExchange for the
\* iPE-th PE, given the indexes the resampling algorithm returns
MposteriorPE(pes, plan, iPE, iNewParticles) ==
    LET jointParticles == Mposterior(subsetPosteriorDistributions(pes, plan, iPE))
    IN  [pes EXCEPT ![iPE] =
            updateAggregatedWeight(
                setLogWeights(setSamples(@, [k \in DOMAIN iNewParticles |->
                                                jointParticles[iNewParticles[k]]]),
                              plan.nParticlesPerPE))]

\* the particle the k-th slot of the i-th PE holds before the exchange
InitialParticle(i, k) == (i - 1) * nParticlesPerPE + k

\* a filter whose PEs hold particles that are all different, and the recipe
\* whose performExchange is about to be called
InitMposterior ==
    /\ \E plan \in MposteriorPlans, number_iterations \in NumbersOfIterations,
          weights \in WeightsBefore :
          /\ recipe = [status |-> "Mposterior", plan |-> plan,
                       number_iterations |-> number_iterations]
          /\ PEs = [i \in DOMAIN plan.neighbours |->
                       [state |-> [k \in Slots |-> InitialParticle(i, k)],
                        weights |-> weights,
                        aggregatedWeight |-> RSum(weights)]]
    /\ exchangePeriod = 1
    /\ normalizationPeriod = 1
    /\ n = 0
    /\ pc = "Mposterior"
    /\ iPe = 1
    /\ observations = <<>>
    /\ aggregatedWeightsSum = Zero
    /\ calls = 0
    /\ returned = <<>>

\* one PE of one call of MposteriorExchangeRecipe.performExchange; n counts
\* the calls the loop of IteratedMposteriorExchangeRecipe has completed, and
\* `returned` keeps the subset posteriors gathered for the PE
mposteriorPE ==
    /\ pc = "Mposterior"
    /\ n < recipe.number_iterations
    /\ LET posteriors == subsetPosteriorDistributions(PEs, recipe.plan, iPe)
       IN  /\ \E iNewParticles \in getIndexesAmong(Len(Mposterior(posteriors)),
                                                    recipe.plan.nParticlesPerPE) :
                 PEs' = MposteriorPE(PEs, recipe.plan, iPe, iNewParticles)
           /\ returned' = <<[iPE |-> iPe, call |-> n + 1, posteriors |-> posteriors]>>
    /\ IF iPe < Len(PEs)
       THEN iPe' = iPe + 1 /\ n' = n
       ELSE iPe' = 1 /\ n' = n + 1
    /\ UNCHANGED <<recipe, exchangePeriod, normalizationPeriod, pc, observations,
                   aggregatedWeightsSum, calls>>

\* the loop of IteratedMposteriorExchangeRecipe.performExchange is exhausted
mposteriorReturns ==
    /\ pc = "Mposterior"
    /\ n = recipe.number_iterations
    /\ pc' = "exchanged"
    /\ UNCHANGED <<recipe, exchangePeriod, normalizationPeriod, PEs, n, iPe, observations,
                   aggregatedWeightsSum, calls, returned>>

NextMposterior == mposteriorPE \/ mposteriorReturns

SpecMposterior == InitMposterior /\ [][NextMposterior]_vars

\* ------------------------------------------ a particle filter on its own

\* (a variant that forces the aggregated weight and leaves the weights)
centralizedAvoidWeightDegeneracyForcedOnly(PE, isResamplingNeeded, iParticlesToBeKept) ==
    resample([PE EXCEPT !.aggregatedWeight = One], isResamplingNeeded, iParticlesToBeKept)

\* CentralizedTargetTrackingParticleFilter.avoidWeightDegeneracy
centralizedAvoidWeightDegeneracy(PE, isResamplingNeeded, iParticlesToBeKept) ==
    LET divided ==
            IF PE.aggregatedWeight = Zero
            THEN [PE EXCEPT !.weights = fill(Rat(1, nParticlesPerPE))]
            ELSE [PE EXCEPT !.weights = [k \in Slots |->
                                            RDiv(PE.weights[k], PE.aggregatedWeight)]]
    IN  resample([divided EXCEPT !.aggregatedWeight = One],
                 isResamplingNeeded, iParticlesToBeKept)

\* CentralizedTargetTrackingParticleFilter.step
centralizedStep(PE, sensors, obs, nextState, isResamplingNeeded, iParticlesToBeKept) ==
    LET likelihoodsProduct ==
            [k \in Slots |->
                ProdUpTo([s \in 1..Len(sensors) |->
                             likelihood(sensors[s], obs[s], nextState[k])],
                         Len(sensors))]
        weighted == [PE EXCEPT !.state = nextState,
                               !.weights = [k \in Slots |->
                                               RMul(PE.weights[k], likelihoodsProduct[k])]]
    IN  centralizedAvoidWeightDegeneracy(updateAggregatedWeight(weighted),
                                         isResamplingNeeded, iParticlesToBeKept)

\* two sensors that differ, one at each position
TwoSensors == << [position |-> 1, threshold |-> 1,
                  probDetection |-> <<1, 2>>, probFalseAlarm |-> Zero],
                 [position |-> 2, threshold |-> 1,
                  probDetection |-> <<2, 3>>, probFalseAlarm |-> <<1, 3>>] >>

\* the observations of one time instant of the two sensors
TwoObservationsValues == [1..Len(TwoSensors) -> {0, 1}]

\* the setter of CentralizedTargetTrackingParticleFilter.weights: the filter
\* it leaves, and whether it raised
setWeights(PE, value) ==
    IF Len(PE.weights) = Len(value)
    THEN [PE |-> PE, raised |-> FALSE]
    ELSE [PE |-> PE, raised |-> TRUE]

\* the vectors assigned to the weights: of the length of the weights, or longer
WeightsAssigned ==
    [Slots -> {Rat(1, 2), One}] \cup [1..(nParticlesPerPE + 1) -> {Rat(1, 2)}]

\* the aggregated weight the filter may be built with (1 unless given)
AggregatedWeightsGiven == {One, Rat(1, 2), Zero}

\* a filter as its constructor leaves it
InitCentralized ==
    /\ \E garbage \in [Slots -> GarbageWeights], aggregatedWeight \in AggregatedWeightsGiven :
          PEs = <<NewPE(garbage, aggregatedWeight)>>
    /\ recipe = [status |-> "centralized"]
    /\ exchangePeriod = 1
    /\ normalizationPeriod = 1
    /\ n = 0
    /\ pc = "constructed"
    /\ iPe = 1
    /\ observations = <<>>
    /\ aggregatedWeightsSum = Zero
    /\ calls = 0
    /\ returned = <<>>

\* initialize of the filter; n counts the steps taken since
centralizedInitialize ==
    /\ pc \in {"constructed", "stepped"}
    /\ calls < MaxCalls
    /\ \E samples \in [Slots -> Positions] :
          PEs' = <<PEinitialize(PEs[1], samples)>>
    /\ n' = 0
    /\ pc' = "stepped"
    /\ calls' = calls + 1
    /\ observations' = <<>>
    /\ UNCHANGED <<recipe, exchangePeriod, normalizationPeriod, iPe, aggregatedWeightsSum,
                   returned>>

\* step of the filter, with the observations of a time instant (kept in
\* `observations`)
centralizedStepCalled ==
    /\ pc = "stepped"
    /\ calls < MaxCalls
    /\ \E obs \in TwoObservationsValues, nextState \in nextStates(PEs[1].state),
          isResamplingNeeded \in BOOLEAN :
       \E iParticlesToBeKept \in getIndexes(isResamplingNeeded) :
          /\ PEs' = <<centralizedStep(PEs[1], TwoSensors, obs, nextState,
                                      isResamplingNeeded, iParticlesToBeKept)>>
          /\ observations' = obs
    /\ n' = n + 1
    /\ calls' = calls + 1
    /\ UNCHANGED <<recipe, exchangePeriod, normalizationPeriod, pc, iPe,
                   aggregatedWeightsSum, returned>>

\* an assignment to the weights of the filter; `returned` keeps the vector
\* assigned and whether the assignment raised
weightsAssigned ==
    /\ pc = "stepped"
    /\ calls < MaxCalls
    /\ \E value \in WeightsAssigned :
          /\ PEs' = <<setWeights(PEs[1], value).PE>>
          /\ returned' = <<[call |-> calls + 1, value |-> value,
                            raised |-> setWeights(PEs[1], value).raised]>>
    /\ calls' = calls + 1
    /\ UNCHANGED <<recipe, exchangePeriod, normalizationPeriod, n, pc, iPe, observations,
                   aggregatedWeightsSum>>

NextCentralized == centralizedInitialize \/ centralizedStepCalled \/ weightsAssigned

SpecCentralized == InitCentralized /\ [][NextCentralized]_vars

\* ------------------------------ a filter of PEs connected with some sensors

\* the lists of (indexes of) sensors a PE may be connected with: in any
\* order, none repeated
SensorLists == {<<2>>, <<1, 2>>, <<2, 1>>}

\* the particles the prior gives a PE: one at every position
PriorSamples == {<<1, 2>>}

\* the orders the PEs may be gone through
Orders == {<<1, 2>>, <<2, 1>>}

\* the numbers the resampling algorithm is to draw next from its generator,
\* resamplingAlgorithm being one object handed to every PE: enough of them
\* for every PE to resample
Streams == [1..(nPEs * nParticlesPerPE) -> Slots]

\* (a variant in which every PE draws from the beginning of the stream)
afterDrawingNothing(stream, isResamplingNeeded) == stream

\* the stream once a PE has drawn from it the indexes of a resampling
afterDrawing(stream, isResamplingNeeded) ==
    IF isResamplingNeeded
    THEN SubSeq(stream, nParticlesPerPE + 1, Len(stream))
    ELSE stream

\* (a variant that hands over the observations in the order of the sensors)
observationsInSensorsOrder(obs, connections) ==
    LET connected(iSensor) == iSensor \in Range(connections)
        iSensors == SelectSeq([iSensor \in 1..Len(obs) |-> iSensor], connected)
    IN  [j \in 1..Len(iSensors) |-> obs[iSensors[j]]]

\* the loop of DistributedTargetTrackingParticleFilter.step over the first m
\* PEs of `order` (the code's is 1, 2, ...): the PEs and what is left of the
\* stream; criterion[i] is the answer of the resampling criterion for PE i
RECURSIVE localStepsUpTo(_, _, _, _, _, _, _)
localStepsUpTo(pes, connections, obs, criterion, stream, order, m) ==
    IF m = 0
    THEN [PEs |-> pes, stream |-> stream]
    ELSE LET before == localStepsUpTo(pes, connections, obs, criterion, stream, order, m - 1)
             i == order[m]
             iParticlesToBeKept ==
                 IF criterion[i]
                 THEN SubSeq(before.stream, 1, nParticlesPerPE)
                 ELSE [k \in Slots |-> k]
         IN  [PEs |-> [before.PEs EXCEPT ![i] =
                          centralizedStep(@, sensorsOf(TwoSensors, connections[i]),
                                          observationsOf(obs, connections[i]),
                                          CHOOSE nextState \in nextStates(@.state) : TRUE,
                                          criterion[i], iParticlesToBeKept)],
              stream |-> afterDrawing(before.stream, criterion[i])]

\* the filter as its constructor leaves it
InitConnected ==
    /\ \E connections \in [PEsIndexes -> SensorLists] :
          recipe = [status |-> "connected", PEsSensorsConnections |-> connections]
    /\ \E garbage \in [Slots -> GarbageWeights] :
          PEs = [i \in PEsIndexes |-> NewPE(garbage, One)]
    /\ exchangePeriod = 1
    /\ normalizationPeriod = 1
    /\ n = 0
    /\ pc = "constructed"
    /\ iPe = 1
    /\ observations = <<>>
    /\ aggregatedWeightsSum = Zero
    /\ calls = 0
    /\ returned = <<>>

\* DistributedTargetTrackingParticleFilter.initialize
connectedInitialize ==
    /\ pc = "constructed"
    /\ \E samples \in [PEsIndexes -> PriorSamples] :
          PEs' = [i \in PEsIndexes |-> PEinitialize(PEs[i], samples[i])]
    /\ n' = 0
    /\ pc' = "idle"
    /\ UNCHANGED <<recipe, exchangePeriod, normalizationPeriod, iPe, observations,
                   aggregatedWeightsSum, calls, returned>>

\* DistributedTargetTrackingParticleFilter.step; `returned` keeps, for every
\* PE, the sensor every observation handed to it comes from (observed) and
\* the sensors the PE holds (applied), the answers of the criterion and the
\* stream of the resampling algorithm when the step began
connectedStep ==
    /\ pc = "idle"
    /\ n < MaxTimeInstants
    /\ \E obs \in TwoObservationsValues, criterion \in [PEsIndexes -> BOOLEAN],
          stream \in Streams :
          /\ PEs' = localStepsUpTo(PEs, recipe.PEsSensorsConnections, obs, criterion,
                                   stream, [i \in PEsIndexes |-> i], nPEs).PEs
          /\ observations' = obs
          /\ returned' =
                <<[handed |-> [i \in PEsIndexes |->
                      [observed |-> observationsOf([s \in 1..Len(TwoSensors) |-> s],
                                                  recipe.PEsSensorsConnections[i]),
                       applied |-> sensorsOf([s \in 1..Len(TwoSensors) |-> s],
                                             recipe.PEsSensorsConnections[i])]],
                   criterion |-> criterion,
                   stream |-> stream]>>
    /\ n' = n + 1
    /\ UNCHANGED <<recipe, exchangePeriod, normalizationPeriod, pc, iPe,
                   aggregatedWeightsSum, calls>>

NextConnected == connectedInitialize \/ connectedStep

SpecConnected == InitConnected /\ [][NextConnected]_vars

\* ------------------------------------ a filter whose sensors never detect

\* a sensor that detects nothing and raises no false alarm: it observes 0,
\* and the likelihood of that observation is 1 at every position
QuietSensors == << [position |-> 1, threshold |-> 1,
                    probDetection |-> Zero, probFalseAlarm |-> Zero] >>

\* what BinarySensor.detect returns for such sensors
QuietObservations == {[s \in 1..Len(QuietSensors) |-> 0]}

stepCalledQuiet == stepCalledWith(QuietObservations)

\* the local steps with these sensors and a criterion that never asks for
\* resampling
stepLocalQuiet == stepLocalWith(QuietSensors, {FALSE})

NextQuiet ==
    initialize \/ stepCalledQuiet \/ stepLocalQuiet \/ stepExchange \/ stepNormalize

SpecQuiet == Init /\ [][NextQuiet]_vars

\* --------------------------------------------------- likelihood consensus

\* the values PE.beta[r] may have, for one combination of exponents r
BetaValues == {<<-1, 1>>, Zero, One}

\* (a variant that counts the neighbours of the PE alone)
neighborWeightOfOwnDegree(neighborhoods, iPE, iNeighbor) ==
    RDiv(One, <<1 + Len(neighborhoods[iPE]), 1>>)

\* 1/(1+max(nNeighbors,len(self._neighborhoods[iNeighbor])))
neighborWeight(neighborhoods, iPE, iNeighbor) ==
    RDiv(One, <<1 + MaxOf({Len(neighborhoods[iPE]), Len(neighborhoods[iNeighbor])}), 1>>)

\* the Metropolis weights: for every PE, the tuple of its own weight and of
\* the weights of its neighbours
metropolisWeights(neighborhoods) ==
    [i \in DOMAIN neighborhoods |->
        LET neighborsWeights ==
                [k \in DOMAIN neighborhoods[i] |->
                    neighborWeight(neighborhoods, i, neighborhoods[i][k])]
        IN  <<RSub(One, RSum(neighborsWeights)), neighborsWeights>>]

\* LikelihoodConsensusExchangeRecipe.__init__
NewConsensusRecipe(neighborhoods, maxNumberOfIterations) ==
    [status |-> "consensus",
     neighborhoods |-> neighborhoods,
     maxNumberOfIterations |-> maxNumberOfIterations,
     metropolisWeights |-> metropolisWeights(neighborhoods)]

\* numpy's dot of two vectors
Dot(u, v) == RSum([k \in DOMAIN u |-> RMul(u[k], v[k])])

\* own*weights[0] + np.array([... for iNeighbor in neighbors]).dot(weights[1])
Consensed(own, ofNeighbors, weights) ==
    RAdd(RMul(own, weights[1]), Dot(ofNeighbors, weights[2]))

\* a recipe and the PEs of a filter, each with its beta[r], before performExchange
InitConsensus ==
    /\ \E neighborhoods \in PlanTopologies, R \in 0..MaxIterations :
          /\ recipe = NewConsensusRecipe(neighborhoods, R)
          /\ PEs \in [DOMAIN neighborhoods -> [beta : BetaValues]]
    /\ exchangePeriod = 1
    /\ normalizationPeriod = 1
    /\ n = 1
    /\ pc = "consensusFirst"
    /\ iPe = 1
    /\ observations = <<>>
    /\ aggregatedWeightsSum = Zero
    /\ calls = 0
    /\ returned = <<>>

\* the loops over the PEs go on with the next PE, or end: then another
\* iteration follows, or the averages are turned into sums
consensusGoesOn ==
    IF iPe < Len(PEs)
    THEN iPe' = iPe + 1 /\ UNCHANGED <<n, pc>>
    ELSE /\ iPe' = 1
         /\ IF n < recipe.maxNumberOfIterations
            THEN n' = n + 1 /\ pc' = "consensus"
            ELSE n' = n /\ pc' = "consensusScale"

\* performExchange, the first iteration: betaConsensus of one PE, from the beta's
consensusFirst ==
    /\ pc = "consensusFirst"
    /\ PEs' = [PEs EXCEPT ![iPe] =
                 [beta |-> @.beta,
                  betaConsensus |->
                     Consensed(@.beta,
                               [k \in DOMAIN recipe.neighborhoods[iPe] |->
                                   PEs[recipe.neighborhoods[iPe][k]].beta],
                               recipe.metropolisWeights[iPe])]]
    /\ consensusGoesOn
    /\ UNCHANGED <<recipe, exchangePeriod, normalizationPeriod, observations,
                   aggregatedWeightsSum, calls, returned>>

\* performExchange, a later iteration: betaConsensus of one PE, from the
\* betaConsensus the PEs hold
consensusIteration ==
    /\ pc = "consensus"
    /\ PEs' = [PEs EXCEPT ![iPe].betaConsensus =
                 Consensed(@,
                           [k \in DOMAIN recipe.neighborhoods[iPe] |->
                               PEs[recipe.neighborhoods[iPe][k]].betaConsensus],
                           recipe.metropolisWeights[iPe])]
    /\ consensusGoesOn
    /\ UNCHANGED <<recipe, exchangePeriod, normalizationPeriod, observations,
                   aggregatedWeightsSum, calls, returned>>

\* performExchange, its end: every average is turned into a sum
consensusScale ==
    /\ pc = "consensusScale"
    /\ PEs' = [i \in DOMAIN PEs |->
                 [PEs[i] EXCEPT !.betaConsensus = RMul(@, <<Len(PEs), 1>>)]]
    /\ pc' = "exchanged"
    /\ UNCHANGED <<recipe, exchangePeriod, normalizationPeriod, n, iPe, observations,
                   aggregatedWeightsSum, calls, returned>>

NextConsensus == consensusFirst \/ consensusIteration \/ consensusScale

SpecConsensus == InitConsensus /\ [][NextConsensus]_vars

\* ------------------------------------------------------------ properties

\* the (particle, weight) pairs held by all the PEs, and how often each occurs
ParticlesOf(pes) ==
    {getParticle(pes[i], k) : i \in PEsIndexes, k \in Slots}

CountOf(pes, particle) ==
    Cardinality({ik \in PEsIndexes \X Slots : getParticle(pes[ik[1]], ik[2]) = particle})

SameParticles(pes1, pes2) ==
    \A particle \in ParticlesOf(pes1) \cup ParticlesOf(pes2) :
        CountOf(pes1, particle) = CountOf(pes2, particle)

ExchangeIsDue == n % exchangePeriod = 0

NormalizationIsDue == n % normalizationPeriod = 0

\* C1: an exchange of particles leaves the multiset of the (particle, weight)
\* pairs held by all the PEs together as it was, every time it is performed.
C1_ExchangeKeepsTheParticles ==
    [][(pc = "exchange" /\ ExchangeIsDue) => SameParticles(PEs, PEs')]_vars

\* an exchange has just swapped two particles at different positions
C1_Witness ==
    /\ pc = "normalize"
    /\ ExchangeIsDue
    /\ Len(recipe.exchangeTuples) = 2
    /\ \E t \in DOMAIN recipe.exchangeTuples :
          LET e == recipe.exchangeTuples[t]
          IN  PEs[e.iPE].state[e.iParticleWithinPE]
                # PEs[e.iNeighbour].state[e.iParticleWithinNeighbour]

\* the two (PE, slot) pairs of an exchange tuple
SidesOf(e) == {<<e.iPE, e.iParticleWithinPE>>, <<e.iNeighbour, e.iParticleWithinNeighbour>>}

\* C2: in every plan the constructor returns, each (PE, slot) pair occurs in
\* at most one exchange tuple, as either side, and the two PEs of every
\* tuple are distinct neighbours.
C2_PlanUsesEverySlotOnce ==
    recipe.status = "done" =>
        LET tuples == recipe.exchangeTuples
        IN  /\ \A t, u \in DOMAIN tuples :
                  t # u => SidesOf(tuples[t]) \cap SidesOf(tuples[u]) = {}
            /\ \A t \in DOMAIN tuples :
                  /\ tuples[t].iPE # tuples[t].iNeighbour
                  /\ tuples[t].iNeighbour \in Range(recipe.neighbours[tuples[t].iPE])
                  /\ tuples[t].iPE \in Range(recipe.neighbours[tuples[t].iNeighbour])

\* a plan was returned in which one PE exchanges with two neighbours
C2_Witness ==
    /\ pc = "plan"
    /\ recipe.status = "done"
    /\ \E t, u \in DOMAIN recipe.exchangeTuples :
          /\ recipe.exchangeTuples[t].iNeighbour = recipe.exchangeTuples[u].iPE
          /\ recipe.exchangeTuples[t].iPE # recipe.exchangeTuples[u].iNeighbour

\* the filter holds particles and weights (initialize was called)
Initialized == pc \in {"idle", "local", "exchange", "normalize"}

\* a == b and a >= 0 as floats compare: a NaN equals nothing and is not >= 0
REq(a, b) == a # NaN /\ b # NaN /\ a = b

NonNegative(a) == a = Zero \/ RGreater(a, Zero)

Positive(a) == IsFinite(a) /\ RGreater(a, Zero)

SumOfAggregatedWeights(pes) == RSum(getAggregatedWeights(pes))

\* C3: once the filter is initialized, the aggregated weight of every PE is
\* non-negative and equals the sum of the weights of the PE, after every
\* operation.
C3_AggregatedWeightIsTheSum ==
    Initialized =>
        \A i \in PEsIndexes :
            /\ NonNegative(PEs[i].aggregatedWeight)
            /\ REq(PEs[i].aggregatedWeight, RSum(PEs[i].weights))

\* every PE with aggregated weight 1/nPEs and every weight 1/(nPEs K)
ResetPEs(pes) ==
    [i \in PEsIndexes |->
        [pes[i] EXCEPT !.aggregatedWeight = Rat(1, nPEs),
                       !.weights = fill(Rat(1, nPEs * nParticlesPerPE))]]

\* C4: when the aggregated weights add up to 0 after the local steps and the
\* exchange, step resets every PE to the aggregated weight 1/nPEs and the
\* weights 1/(nPEs K) and does not normalize; so step always ends with a sum
\* of the aggregated weights that is finite and positive.
C4_StepResetsDegenerateWeights ==
    [][pc = "normalize" =>
          /\ aggregatedWeightsSum = Zero => PEs' = ResetPEs(PEs)
          /\ Positive(SumOfAggregatedWeights(PEs'))]_vars

\* C5: a normalization that runs on a positive sum S of the aggregated
\* weights divides every weight and every aggregated weight by S, and the
\* aggregated weights then add up to 1.
C5_NormalizationDividesBySum ==
    [][(pc = "normalize" /\ NormalizationIsDue
            /\ Positive(SumOfAggregatedWeights(PEs))) =>
          LET S == SumOfAggregatedWeights(PEs)
          IN  /\ aggregatedWeightsSum = S
              /\ SumOfAggregatedWeights(PEs') = One
              /\ \A i \in PEsIndexes :
                    /\ PEs'[i].aggregatedWeight = RDiv(PEs[i].aggregatedWeight, S)
                    /\ PEs'[i].state = PEs[i].state
                    /\ \A k \in Slots :
                          PEs'[i].weights[k] = RDiv(PEs[i].weights[k], S)]_vars

\* a step has ended with a normalization by a sum that was not 1: no weight
\* has a denominator 3 otherwise, and the PEs weigh differently
C5_Witness ==
    /\ pc = "idle"
    /\ n > 0
    /\ NormalizationIsDue
    /\ SumOfAggregatedWeights(PEs) = One
    /\ \E i \in PEsIndexes : PEs[i].aggregatedWeight[2] = 3

\* C6: an exchange, with the update of the aggregated weights it ends with,
\* leaves the sum of the aggregated weights of all the PEs as it was.
C6_ExchangeKeepsTheSum ==
    [][(pc = "exchange" /\ ExchangeIsDue) =>
          SumOfAggregatedWeights(PEs') = SumOfAggregatedWeights(PEs)]_vars

\* an exchange has just moved weight between two PEs whose sum is positive
C6_Witness ==
    /\ pc = "normalize"
    /\ ExchangeIsDue
    /\ Positive(aggregatedWeightsSum)
    /\ Len(recipe.exchangeTuples) = 1
    /\ LET e == recipe.exchangeTuples[1]
       IN  PEs[e.iPE].weights[e.iParticleWithinPE]
             # PEs[e.iNeighbour].weights[e.iParticleWithinNeighbour]
    /\ PEs[1].aggregatedWeight # PEs[2].aggregatedWeight

\* C7: the exchange runs in the steps whose number since initialize is a
\* multiple of the exchange period, the normalization in those whose number
\* is a multiple of the normalization period unless the aggregated weights
\* add up to 0; no other step swaps or scales a weight.
C7_PeriodsGateExchangeAndNormalization ==
    [][/\ pc = "exchange" =>
              PEs' = IF ExchangeIsDue THEN exchanged(PEs, recipe.exchangeTuples) ELSE PEs
       /\ pc = "normalize" =>
              PEs' = IF NormalizationIsDue /\ aggregatedWeightsSum # Zero
                     THEN normalized(PEs, aggregatedWeightsSum)
                     ELSE PEs]_vars

\* C8: initialize, whenever it is called, leaves every PE with the aggregated
\* weight 1/nPEs and K weights equal to (1/nPEs)/K, and the time at 0.
C8_InitializeResetsTheWeights ==
    (pc = "idle" /\ n = 0) =>
        \A i \in PEsIndexes :
            /\ PEs[i].aggregatedWeight = Rat(1, nPEs)
            /\ \A k \in Slots : PEs[i].weights[k] = Rat(1, nPEs * nParticlesPerPE)

\* one centralized filter that holds the particles of all the PEs with the
\* weights they have
RECURSIVE Joined(_, _, _)
Joined(pes, field, i) ==
    IF i = 0 THEN <<>> ELSE Joined(pes, field, i - 1) \o pes[i][field]

CentralizedPF(pes) ==
    updateAggregatedWeight([state |-> Joined(pes, "state", nPEs),
                            weights |-> Joined(pes, "weights", nPEs),
                            aggregatedWeight |-> Zero])

\* C9: computeMean is asked between two calls of the filter.  When every
\* aggregated weight is the sum of the weights of its PE and these add up
\* to a positive number, the mean of the filter (and the
\* estimate of WeightedMean) is the mean of one centralized filter holding
\* all the particles with the same weights; a PE whose aggregated weight is
\* 0 contributes the zero mean with weight 0.
C9_MeanIsTheCentralizedMean ==
    (/\ pc = "idle"
     /\ \A i \in PEsIndexes : REq(PEs[i].aggregatedWeight, RSum(PEs[i].weights))
     /\ Positive(SumOfAggregatedWeights(PEs))) =>
        /\ computeMean(PEs) = PEcomputeMean(CentralizedPF(PEs))
        /\ WeightedMeanEstimate(PEs) = PEcomputeMean(CentralizedPF(PEs))
        /\ \A i \in PEsIndexes :
              PEs[i].aggregatedWeight = Zero =>
                 /\ PEcomputeMean(PEs[i]) = Zero
                 /\ RDiv(PEs[i].aggregatedWeight, SumOfAggregatedWeights(PEs)) = Zero

\* a step has ended with one PE of aggregated weight 0 beside one whose
\* particles differ in position and in weight
C9_Witness ==
    /\ pc = "idle"
    /\ n > 0
    /\ Positive(SumOfAggregatedWeights(PEs))
    /\ \E i, j \in PEsIndexes :
          /\ PEs[i].aggregatedWeight = Zero
          /\ PEs[j].state[1] # PEs[j].state[2]
          /\ PEs[j].weights[1] # PEs[j].weights[2]
          /\ Positive(PEs[j].weights[1])
          /\ Positive(PEs[j].weights[2])

\* the count of particles two neighbours exchange, as the recipe is asked for it
AskedE(r) ==
    IF r.exchanged_particles.type = "int" THEN r.exchanged_particles.value
    ELSE (r.nParticlesPerPE * r.exchanged_particles.num)
            \div (r.exchanged_particles.den * MaxDegree(r.neighbours))

Plannable(r) ==
    /\ r.exchanged_particles.type \in {"int", "float"}
    /\ AskedE(r) >= 1
    /\ \A i \in DOMAIN r.neighbours : Len(r.neighbours[i]) * AskedE(r) <= r.nParticlesPerPE

\* C10: the constructor of a recipe returns a plan exactly when the count E
\* of particles two neighbours exchange is at least 1 and no PE has more
\* than K/E neighbours; it raises an error, and builds nothing, otherwise.
C10_PlanningSucceedsIffParticlesSuffice ==
    /\ recipe.status = "done" =>
          /\ Plannable(recipe)
          /\ recipe.nParticlesExchangedBetweenTwoNeighbours = AskedE(recipe)
    /\ recipe.status = "error" => (~Plannable(recipe) /\ recipe.exchangeTuples = <<>>)
    /\ recipe.status = "planning" =>
          (PlanPair(recipe) # {} /\ recipe.iLoop <= Len(LoopPairs(recipe.neighbours)))

\* the constructor failed for a PE with too many neighbours, after it had
\* planned the exchange of another pair
C10_Witness ==
    /\ pc = "plan"
    /\ recipe.status = "error"
    /\ recipe.nParticlesExchangedBetweenTwoNeighbours >= 1
    /\ recipe.alreadyProcessedPEs # {}

\* the weight PE i gives to its neighbour j in the recipe
WeightTo(i, j) ==
    LET k == CHOOSE k \in DOMAIN recipe.neighborhoods[i] : recipe.neighborhoods[i][k] = j
    IN  recipe.metropolisWeights[i][2][k]

\* C11: the Metropolis weight of PE i for its neighbour j is
\* 1/(1 + max(|N(i)|, |N(j)|)) and its own weight is 1 minus the sum of
\* these; so the weights of a PE add up to 1, its own weight is positive,
\* and two neighbours give each other the same weight.
C11_MetropolisWeights ==
    recipe.status = "consensus" =>
        LET N == recipe.neighborhoods
            w == recipe.metropolisWeights
        IN  \A i \in DOMAIN N :
               /\ \A j \in Range(N[i]) :
                     /\ WeightTo(i, j) =
                           Rat(1, 1 + (IF Len(N[i]) > Len(N[j]) THEN Len(N[i]) ELSE Len(N[j])))
                     /\ WeightTo(i, j) = WeightTo(j, i)
               /\ Len(w[i][2]) = Len(N[i])
               /\ w[i][1] = RSub(One, RSum(w[i][2]))
               /\ RAdd(w[i][1], RSum(w[i][2])) = One
               /\ Positive(w[i][1])

\* a consensus has run on a recipe planned for PEs that differ in their
\* number of neighbours
C11_Witness ==
    /\ pc = "exchanged"
    /\ recipe.status = "consensus"
    /\ \E i \in DOMAIN recipe.neighborhoods : \E j \in Range(recipe.neighborhoods[i]) :
          Len(recipe.neighborhoods[i]) > Len(recipe.neighborhoods[j]) + 1

\* the coefficients of all the PEs after k iterations, each of which
\* combines, for every PE, the values that the PE and its neighbours had
\* after the iteration before (after none: their beta)
RECURSIVE Averaged(_)
Averaged(k) ==
    IF k = 0 THEN [i \in DOMAIN PEs |-> PEs[i].beta]
    ELSE LET before == Averaged(k - 1)
         IN  [i \in DOMAIN PEs |->
                Consensed(before[i],
                          [m \in DOMAIN recipe.neighborhoods[i] |->
                              before[recipe.neighborhoods[i][m]]],
                          recipe.metropolisWeights[i])]

\* C20: in an iteration k > 1 of the consensus, the new coefficient of a PE
\* is its own weight times its coefficient of iteration k-1 plus, for every
\* neighbour, the weight of the neighbour times the coefficient the
\* neighbour had after iteration k-1: no value written in iteration k is read.
C20_IterationReadsTheValuesBefore ==
    [][pc = "consensus" =>
          LET before == Averaged(n - 1)
          IN  PEs'[iPe].betaConsensus =
                 Consensed(before[iPe],
                           [m \in DOMAIN recipe.neighborhoods[iPe] |->
                               before[recipe.neighborhoods[iPe][m]]],
                           recipe.metropolisWeights[iPe])]_vars

\* |a - b| <= 1e-8
WithinTolerance(a, b) ==
    LET d == RSub(a, b)
    IN  IsFinite(d) /\ (d[1] = 0 \/ d[2] \div Abs(d[1]) >= 100000000)

\* C12: on the path of 3 PEs, with 5 iterations and a beta that is not 0 at
\* one PE alone, the coefficient every PE holds after performExchange is
\* the sum of the beta of all the PEs, within 1e-8.
C12_ConsensusGivesTheSum ==
    (/\ pc = "exchanged"
     /\ recipe.neighborhoods = Path3
     /\ recipe.maxNumberOfIterations = 5
     /\ Cardinality({i \in DOMAIN PEs : PEs[i].beta # Zero}) = 1) =>
        \A i \in DOMAIN PEs :
            WithinTolerance(PEs[i].betaConsensus,
                            RSum([j \in DOMAIN PEs |-> PEs[j].beta]))

\* C13: with likelihoods that are all 1, the identity for transition kernel
\* and no resampling, every PE has the aggregated weight 1/nPEs after every
\* step, and the steps keep the particles the PEs were initialized with
\* (all together, with their weights).
C13_QuietStepsKeepWeightsAndParticles ==
    /\ [](pc = "idle" => \A i \in PEsIndexes : PEs[i].aggregatedWeight = Rat(1, nPEs))
    /\ [][(pc \in {"local", "exchange", "normalize"} \/ pc' = "local")
              => SameParticles(PEs, PEs')]_vars

\* two steps have ended in which particles at different positions were exchanged
C13_Witness ==
    /\ pc = "idle"
    /\ n = 2
    /\ exchangePeriod = 1
    /\ normalizationPeriod = 1
    /\ \E t \in DOMAIN recipe.exchangeTuples :
          LET e == recipe.exchangeTuples[t]
          IN  PEs[e.iPE].state[e.iParticleWithinPE]
                # PEs[e.iNeighbour].state[e.iParticleWithinNeighbour]

\* the sum of the second components of the pairs of S
RECURSIVE Total(_)
Total(S) ==
    IF S = {} THEN 0
    ELSE LET x == CHOOSE y \in S : TRUE IN x[2] + Total(S \ {x})

\* hops(i, j): the length of a shortest chain of neighbours from i to j
Hops(i, j) == distances_between_PEs(recipe.neighbours)[i][j]

\* the messages needed for the particles of a plan: for every PE and every
\* (neighbour, slots) of its plan, hops * |slots| * the elements of a state
MessagesForParticles ==
    Total(UNION {{<<<<i, k>>,
                    Hops(i, recipe.neighbours_particles[i][k].iNeighbour)
                        * Len(recipe.neighbours_particles[i][k].iParticles) * nElements>> :
                      k \in DOMAIN recipe.neighbours_particles[i]} :
                 i \in DOMAIN recipe.neighbours_particles})

\* C14: messages() of a DRNA recipe returns the messages needed for the
\* particles of the plan plus the number of neighbours of every PE;
\* messages() of an Mposterior recipe returns the former alone; and the
\* call leaves the plan as it was.
C14_MessagesOfAPlan ==
    /\ [](pc = "plan" /\ returned # <<>> =>
            returned[1].messages =
                MessagesForParticles
                  + (IF returned[1].class = "DRNAExchangeRecipe"
                     THEN Total({<<i, Len(recipe.neighbours[i])>> : i \in DOMAIN recipe.neighbours})
                     ELSE 0))
    /\ [][pc = "plan" /\ returned' # returned => recipe' = recipe]_vars

\* messages() was called on a DRNA recipe in whose plan a PE exchanges
\* particles with two neighbours
C14_Witness ==
    /\ pc = "plan"
    /\ returned # <<>>
    /\ returned[1].class = "DRNAExchangeRecipe"
    /\ returned[1].messages > 0
    /\ \E i \in DOMAIN recipe.neighbours_particles :
          Len(recipe.neighbours_particles[i]) = 2

\* the hops from s to every PE, added up
HopsFrom(s) == Total({<<j, Hops(s, j)>> : j \in DOMAIN recipe.neighbours})

\* C15: messages() of Mean, WeightedMean and GeometricMedian is the number
\* of elements of a state times the hops from the sink to every PE;
\* Mposterior multiplies that by K, PartialMposterior and
\* StochasticGeometricMedian by their number of samples.
C15_EstimatorMessages ==
    pc = "estimator" /\ returned # <<>> =>
        LET r == returned[1]
            factor == CASE r.class \in {"Mean", "WeightedMean", "GeometricMedian"} -> 1
                        [] r.class = "Mposterior" -> PEs[r.i_PE].n_particles
                        [] OTHER -> r.n_particles
        IN  r.messages = nElements * HopsFrom(r.i_PE) * factor

\* a to the power q
RECURSIVE RPow(_, _)
RPow(a, q) == IF q = 0 THEN One ELSE RMul(RPow(a, q - 1), a)

\* the upper bounds and the DRNA exponents the diagnostic is tried with
UpperBounds == {Rat(1, 2), Rat(3, 5), Rat(9, 10)}
Exponents == {1, 2}

\* C16: degeneratedAggregatedWeights() is true exactly when the largest
\* (aggregatedWeight_i / S)^q is above the upper bound U, S being the sum
\* of the aggregated weights and q the exponent of the DRNA settings.
C16_DiagnosticUsesTheExponent ==
    pc = "idle" =>
        \A U \in UpperBounds, q \in Exponents :
            degeneratedAggregatedWeights(PEs, U) <=>
                \E i \in PEsIndexes :
                    RGreater(RPow(RDiv(PEs[i].aggregatedWeight,
                                       SumOfAggregatedWeights(PEs)), q), U)

\* C17: when the resampling algorithm rejects the weights with a
\* ValueError, resample calls it once more (on the weights divided by their
\* sum); it ends having resampled, or with the error of a second rejection,
\* and never by using indexes that were not obtained.
C17_RejectedResamplingIsRetriedOnce ==
    /\ [][pc = "console" => calls' = calls + 1]_vars
    /\ [](pc = "raised" => calls = 2 /\ returned = <<"ValueError">>)

\* the (PE, slot) pairs named by the exchange tuples of the recipe
ExchangedSlots == UNION {SidesOf(recipe.exchangeTuples[t]) : t \in DOMAIN recipe.exchangeTuples}

\* C18: after an exchange, for every exchange tuple, each of its two slots
\* holds the particle and the weight the other one held before the exchange
\* (so nothing that was read had been written by the exchange), and the
\* slots of no tuple hold what they held.
C18_ExchangeSwapsTheSlots ==
    [][(pc = "exchange" /\ ExchangeIsDue) =>
          /\ \A t \in DOMAIN recipe.exchangeTuples :
                LET e == recipe.exchangeTuples[t]
                IN  /\ getParticle(PEs'[e.iPE], e.iParticleWithinPE)
                          = getParticle(PEs[e.iNeighbour], e.iParticleWithinNeighbour)
                    /\ getParticle(PEs'[e.iNeighbour], e.iParticleWithinNeighbour)
                          = getParticle(PEs[e.iPE], e.iParticleWithinPE)
          /\ \A i \in PEsIndexes, k \in Slots :
                <<i, k>> \notin ExchangedSlots =>
                    getParticle(PEs'[i], k) = getParticle(PEs[i], k)]_vars

\* an exchange of one tuple has just swapped two slots that differ in
\* particle and in weight, next to slots it left alone
C18_Witness ==
    /\ pc = "normalize"
    /\ ExchangeIsDue
    /\ Len(recipe.exchangeTuples) = 1
    /\ ExchangedSlots # PEsIndexes \X Slots
    /\ LET e == recipe.exchangeTuples[1]
       IN  /\ PEs[e.iPE].state[e.iParticleWithinPE]
                 # PEs[e.iNeighbour].state[e.iParticleWithinNeighbour]
           /\ PEs[e.iPE].weights[e.iParticleWithinPE]
                 # PEs[e.iNeighbour].weights[e.iParticleWithinNeighbour]

\* C19: in a step, the exchange starts when the last PE has taken its local
\* step, the PEs taking theirs one after the other; after the exchange
\* every aggregated weight is the sum of the weights of its PE, and the
\* sum S is that of these aggregated weights; the normalization divides
\* by this S; and a local step starts only from a call of step, which is
\* accepted only once the previous step has ended.
C19_OrderWithinAStep ==
    [][/\ pc' = "exchange" => pc = "local" /\ iPe = nPEs
       /\ pc' = "local" =>
             \/ pc = "idle" /\ iPe' = 1
             \/ pc = "local" /\ iPe' = iPe + 1
       /\ (pc = "exchange" /\ ExchangeIsDue) =>
             \A i \in PEsIndexes : PEs'[i].aggregatedWeight = RSum(PEs'[i].weights)
       /\ pc = "exchange" =>
             /\ pc' = "normalize"
             /\ aggregatedWeightsSum' = SumOfAggregatedWeights(PEs')
       /\ pc = "normalize" =>
             /\ pc' = "idle"
             /\ NormalizationIsDue =>
                   \A i \in PEsIndexes, k \in Slots :
                       PEs'[i].weights[k]
                           = RMul(PEs[i].weights[k],
                                  RDiv(One, SumOfAggregatedWeights(PEs)))]_vars

\* an exchange of two tuples has ended and the sum taken after it, which is
\* not 1, is about to divide the weights
C19_Witness ==
    /\ pc = "normalize"
    /\ ExchangeIsDue
    /\ NormalizationIsDue
    /\ Len(recipe.exchangeTuples) = 2
    /\ Positive(aggregatedWeightsSum)
    /\ aggregatedWeightsSum # One
    /\ PEs[1].aggregatedWeight # PEs[2].aggregatedWeight

\* C21: the iterations of the consensus leave the sum over the PEs of the
\* coefficients as it was, so that after the final scaling the
\* betaConsensus of all the PEs add up to nPEs times the sum of their beta,
\* whatever the number of iterations and the beta.
C21_ConsensusKeepsTheSum ==
    pc = "exchanged" =>
        RSum([i \in DOMAIN PEs |-> PEs[i].betaConsensus])
            = RMul(<<Len(PEs), 1>>, RSum([i \in DOMAIN PEs |-> PEs[i].beta]))

CommittedIn(j, i) ==
    LET m == CHOOSE m \in DOMAIN recipe.plan.neighbours_particles[j] :
                 recipe.plan.neighbours_particles[j][m].iNeighbour = i
    IN  recipe.plan.neighbours_particles[j][m].iParticles

\* C24: the subset posterior a PE i takes from its neighbour j holds the
\* particles of PE j at the slots the plan committed in PE j for the pair,
\* its own the particles at its first E slots, and the weights of every
\* subset posterior are 1/E.
C24_SubsetPosteriorsFollowThePlan ==
    (pc \in {"Mposterior", "exchanged"} /\ returned # <<>>) =>
        LET i == returned[1].iPE
            E == recipe.plan.nParticlesExchangedBetweenTwoNeighbours
            posteriors == returned[1].posteriors
            N == [m \in DOMAIN recipe.plan.neighbours_particles[i] |->
                     recipe.plan.neighbours_particles[i][m].iNeighbour]
        IN  /\ Range(N) = Range(recipe.plan.neighbours[i])
            /\ Len(posteriors) = Len(N) + 1
            /\ \A m \in DOMAIN posteriors : posteriors[m].weights = [k \in 1..E |-> Rat(1, E)]
            /\ \A m \in DOMAIN N :
                  Range(posteriors[m].samples)
                      = {PEs[N[m]].state[k] : k \in Range(CommittedIn(N[m], i))}

\* C30: in a call of performExchange, the subset posteriors of every PE are
\* made of the particles its neighbours held when the call began, whatever
\* PEs the call has gone through before (stated for the first call, which
\* begins with PE i holding InitialParticle(i, k) at every slot k).
C30_ExchangeReadsTheParticlesBefore ==
    (pc \in {"Mposterior", "exchanged"} /\ returned # <<>> /\ returned[1].call = 1) =>
        LET i == returned[1].iPE
            posteriors == returned[1].posteriors
            entries == recipe.plan.neighbours_particles[i]
        IN  \A m \in DOMAIN entries :
                posteriors[m].samples =
                    [k \in DOMAIN entries[m].iParticles |->
                        InitialParticle(entries[m].iNeighbour, entries[m].iParticles[k])]

\* the degrees of the polynomial the messages are counted for
PolynomialDegrees == {1, 2}

\* C22: performExchange of an iterated Mposterior recipe calls the
\* Mposterior exchange number_iterations times, and that of a likelihood
\* consensus recipe runs maxNumberOfIterations iterations of the consensus
\* (n counts them) before it scales: as many as messages() counts the
\* messages of.
C22_IterationsAreThoseCharged ==
    /\ (pc = "exchanged" /\ recipe.status = "Mposterior") =>
          /\ n = recipe.number_iterations
          /\ IteratedMposteriorMessages(recipe.plan, recipe.number_iterations)
                = n * MposteriorMessages(recipe.plan)
    /\ (pc = "exchanged" /\ recipe.status = "consensus") =>
          /\ n = recipe.maxNumberOfIterations
          /\ \A D \in PolynomialDegrees :
                LET pairs == Total({<<i, Len(recipe.neighborhoods[i])>> :
                                      i \in DOMAIN recipe.neighborhoods})
                IN  consensusMessages(recipe.neighborhoods, recipe.maxNumberOfIterations, D)
                      = pairs * (comb(2 * D + 2, 2 * D) - 1) * n + pairs

\* the PE whose local step is due, once it has propagated and weighted its
\* particles and updated its aggregated weight: what the handling of the
\* degeneracy starts from
Weighted(nextState) ==
    PEstep(PEs[iPe],
           [j \in DOMAIN PEsSensorsConnections[iPe] |-> Sensors[PEsSensorsConnections[iPe][j]]],
           [j \in DOMAIN PEsSensorsConnections[iPe] |->
                  observations[PEsSensorsConnections[iPe][j]]],
           nextState, FALSE, [k \in Slots |-> k])

\* C25: the handling of the degeneracy in the local step of a PE of the DRNA
\* filter leaves the aggregated weight of the PE as it was: either nothing
\* changes, or (a resampling) the particles are drawn among those of the PE
\* and every weight becomes aggregatedWeight/K, with the same sum; when the
\* aggregated weight is 0, particles and weights are left as they are.
C25_DegeneracyHandlingKeepsTheAggregatedWeight ==
    [][pc = "local" =>
          \E nextState \in nextStates(PEs[iPe].state) :
              LET before == Weighted(nextState)
                  after == PEs'[iPe]
              IN  /\ after.aggregatedWeight = before.aggregatedWeight
                  /\ before.aggregatedWeight = Zero => after = before
                  /\ \/ after = before
                     \/ /\ \A k \in Slots :
                              /\ after.weights[k]
                                    = RDiv(before.aggregatedWeight, Rat(nParticlesPerPE, 1))
                              /\ after.state[k] \in Range(before.state)
                        /\ RSum(after.weights) = before.aggregatedWeight]_vars

\* the first PE has resampled in its local step: its weights, which its two
\* particles at different distances of the sensor had made 1/8 and 1/4, are
\* now equal, and its aggregated weight is 3/8
C25_Witness ==
    /\ pc = "local"
    /\ iPe = 2
    /\ PEs[1].aggregatedWeight = Rat(3, 8)
    /\ PEs[1].weights = <<Rat(3, 16), Rat(3, 16)>>

\* the weights of the filter once the step that observed `observations'` has
\* weighted them: every weight times the likelihoods of its particle
PostWeighting ==
    [k \in Slots |->
        RMul(PEs[1].weights[k],
             ProdUpTo([s \in 1..Len(TwoSensors) |->
                          likelihood(TwoSensors[s], observations'[s], PEs[1].state[k])],
                      Len(TwoSensors)))]

\* C26: after every step of a filter on its own, its aggregated weight is 1
\* and its weights add up to 1: they are the weights the step had after
\* weighting divided by their sum, or 1/K each if that sum was 0 or if the
\* step resampled.
C26_CentralizedStepNormalizes ==
    [][(recipe.status = "centralized" /\ n' = n + 1) =>
          LET S == RSum(PostWeighting)
          IN  /\ PEs'[1].aggregatedWeight = One
              /\ RSum(PEs'[1].weights) = One
              /\ \/ PEs'[1].weights = [k \in Slots |-> Rat(1, nParticlesPerPE)]
                 \/ /\ S # Zero
                    /\ PEs'[1].weights = [k \in Slots |-> RDiv(PostWeighting[k], S)]
              /\ S = Zero => PEs'[1].weights = [k \in Slots |-> Rat(1, nParticlesPerPE)]]_vars

\* a step has left weights that are not equal: it divided them by their sum
C26_Witness ==
    /\ recipe.status = "centralized"
    /\ n > 0
    /\ PEs[1].weights[1] # PEs[1].weights[2]
    /\ RSum(PEs[1].weights) = One
    /\ PEs[1].aggregatedWeight = One

\* C27: an assignment to the weights of a vector of their length replaces
\* them by that vector; one of a vector of another length raises and leaves
\* them as they were.
C27_AssignmentReplacesTheWeights ==
    [][(recipe.status = "centralized" /\ returned' # returned) =>
          IF Len(returned'[1].value) = Len(PEs[1].weights)
          THEN /\ ~returned'[1].raised
               /\ PEs'[1].weights = returned'[1].value
          ELSE /\ returned'[1].raised
               /\ PEs'[1].weights = PEs[1].weights]_vars

\* C28: whatever the lists of sensors the PEs are connected with, the j-th
\* observation handed to a PE in a step comes from the sensor whose
\* likelihood the PE applies to it, and the PE is handed as many observations
\* as it holds sensors.
C28_ObservationsMeetTheirSensors ==
    (recipe.status = "connected" /\ returned # <<>>) =>
        \A i \in PEsIndexes :
            /\ Len(returned[1].handed[i].observed) = Len(returned[1].handed[i].applied)
            /\ \A j \in DOMAIN returned[1].handed[i].observed :
                  returned[1].handed[i].observed[j] = returned[1].handed[i].applied[j]

\* C29: the local step of a PE touches nothing but that PE's particles,
\* weights, aggregated weight and random stream, so that the PEs of the
\* filter are left the same by a step whatever the order in which the local
\* steps of the PEs are executed.
C29_OrderOfTheLocalSteps ==
    [][(recipe.status = "connected" /\ n' = n + 1) =>
          \A order \in Orders :
              PEs' = localStepsUpTo(PEs, recipe.PEsSensorsConnections, observations',
                                    returned'[1].criterion, returned'[1].stream,
                                    order, nPEs).PEs]_vars

====
